---- MODULE Spec2Model ----
(***************************************************************************)
(* ReduxSync (src/example.tsx): a React component that broadcasts its      *)
(* reduxState prop as a CustomEvent on the document when it changes, and   *)
(* forwards every CustomEvent received under its eventName to its          *)
(* reduxDispatchCallback prop.                                             *)
(*                                                                         *)
(* One action is one React commit of one instance (mount, re-render with   *)
(* new props, unmount) together with the effects that commit runs and the  *)
(* synchronous document.dispatchEvent they perform.                        *)
(***************************************************************************)
EXTENDS Integers, Sequences, FiniteSets

\* ---------------------------------------------------------------- bounds
\* Number of distinct object identities the applications can pass around.
MaxRefs == 3
\* Number of external state changes in the synchronised-system scenario.
MaxChanges == 2
\* Cap on the broadcasts counted per instance in that scenario.
MaxBroadcasts == 6

\* ---------------------------------------------------------------- values
Instances == {"app1", "app2"}
Names == {"EXAMPLE_EVENT", "OTHER_EVENT"}

\* JavaScript values: undefined, null and object references.
Undefined == [t |-> "undefined", ref |-> 0]
Null == [t |-> "null", ref |-> 0]
Refs == 1..MaxRefs
Obj(r) == [t |-> "object", ref |-> r]
Objects == {Obj(r) : r \in Refs}
Values == {Undefined, Null} \cup Objects

\* The content of the immutable snapshot behind each reference:
\* refs 2k and 2k+1 are different objects with the same content.
Heap(r) == [example |-> 21 + (r \div 2)]

\* lodash isEqual: deep structural comparison of objects, strict equality
\* of everything else (so undefined and null are unequal).
isEqualByIdentity(a, b) == a = b
isEqual(a, b) ==
    IF a.t = "object" /\ b.t = "object"
    THEN Heap(a.ref) = Heap(b.ref)
    ELSE a.t = b.t

\* Object.is, as React uses it to compare effect dependencies.
ObjectIs(a, b) == a = b

\* Callback identities. "dispatch" is the documented usage (the callback
\* dispatches the received state into the application's redux store, which
\* feeds the instance's reduxState); "mock" only observes the call.
NoCallback == "undefined"
Callbacks == {"dispatch", "mock"}
CallbackProps == Callbacks \cup {NoCallback}
StoresState(cb) == cb = "dispatch"

\* ----------------------------------------------------------------- state
VARIABLES
    status,              \* "unmounted" (not yet mounted), "active", "gone"
    eventName,           \* props.eventName of each instance
    reduxDispatchCallback, \* props.reduxDispatchCallback
    reduxState,          \* props.reduxState as of the last render
    previousReduxState,  \* previousReduxState.current
    store,               \* the redux store value of each application
    listenerCleanup,     \* the cleanup function React holds for the Listener effect
    listeners,           \* the document's event listener list, in registration order
    emitted,             \* events dispatched on the document by the last commit
    invoked,             \* callback invocations made during the last commit
    thrown,              \* instances whose handleEvent threw during the last commit
    last,                \* the last commit: operation, instance, and what it replaced
    changes,             \* scenario: number of external state changes made so far
    written,             \* scenario: the values written by external state changes
    broadcasts           \* scenario: events emitted by each instance so far

vars == <<status, eventName, reduxDispatchCallback, reduxState,
          previousReduxState, store, listenerCleanup, listeners,
          emitted, invoked, thrown, last, changes, written, broadcasts>>

scenario == <<changes, written, broadcasts>>

NoCleanup == [inst |-> "none", name |-> "none", cb |-> "none"]
NoCommit == [op |-> "none", inst |-> "none", name |-> "none", cb |-> "none",
             from |-> Undefined, memory |-> Undefined]

\* ------------------------------------------------------- the document
\* const event = new CustomEvent(eventName, {detail: reduxState, bubbles: true})
\* A dictionary member given as undefined takes its default: detail is null.
CustomEvent(n, rs) ==
    [name |-> n, detail |-> IF rs = Undefined THEN Null ELSE rs, bubbles |-> TRUE]

\* dispatchCallback(customEvent.detail) for a callback that exists.
Call(cb, i, arg, acc) ==
    [acc EXCEPT !.invoked = Append(@, [inst |-> i, cb |-> cb, arg |-> arg]),
                !.store = IF StoresState(cb) THEN [@ EXCEPT ![i] = arg] ELSE @]

\* handleEvent: calls dispatchCallback unconditionally; calling undefined
\* throws a TypeError, which the document reports and does not propagate.
handleEventSuppressesDuplicates(l, ev, acc) ==
    IF l.cb = NoCallback
    THEN [acc EXCEPT !.thrown = @ \cup {l.inst}]
    ELSE IF isEqual(ev.detail, acc.memory[l.inst]) THEN acc
    ELSE Call(l.cb, l.inst, ev.detail, acc)
handleEventRemembers(l, ev, acc) ==
    IF l.cb = NoCallback
    THEN [acc EXCEPT !.thrown = @ \cup {l.inst}]
    ELSE [Call(l.cb, l.inst, ev.detail, acc) EXCEPT !.memory[l.inst] = ev.detail]
handleEvent(l, ev, acc) ==
    IF l.cb = NoCallback
    THEN [acc EXCEPT !.thrown = @ \cup {l.inst}]
    ELSE Call(l.cb, l.inst, ev.detail, acc)

\* Which listeners of the list an event of a given name reaches.
MatchesAnyName(l, ev) == TRUE
Matches(l, ev) == l.name = ev.name

\* document.dispatchEvent(event): every listener registered for the event's
\* name is invoked, synchronously, in registration order.
RECURSIVE dispatchEvent(_, _, _)
dispatchEvent(L, ev, acc) ==
    IF L = <<>> THEN acc
    ELSE dispatchEvent(Tail(L), ev,
                       IF Matches(Head(L), ev) THEN handleEvent(Head(L), ev, acc)
                       ELSE acc)

\* document.addEventListener(eventName, handleEvent); the returned cleanup
\* closes over this very registration.
Registration(i, n, cb) == [inst |-> i, name |-> n, cb |-> cb]
addEventListener(L, reg) == Append(L, reg)

\* document.removeEventListener(eventName, handleEvent)
RECURSIVE RemoveFirst(_, _)
RemoveFirst(L, reg) ==
    IF L = <<>> THEN <<>>
    ELSE IF Head(L) = reg THEN Tail(L)
    ELSE <<Head(L)>> \o RemoveFirst(Tail(L), reg)

removeEventListenerOtherHandler(L, reg) == L
removeEventListener(L, reg) == RemoveFirst(L, reg)

\* ------------------------------------------------------- the effects
\* World threaded through the effects of one commit: the document's
\* listeners, every instance's previousReduxState.current, every store.
World(L, mem, st) ==
    [listeners |-> L, memory |-> mem, store |-> st,
     emitted |-> <<>>, invoked |-> <<>>, thrown |-> {}]

\* broadcastEvent(reduxState, eventName), called by instance i.
broadcastEvent(i, rs, n, w) ==
    LET ev == CustomEvent(n, rs)
        acc == dispatchEvent(w.listeners, ev,
                   [invoked |-> w.invoked, thrown |-> w.thrown, store |-> w.store,
                    memory |-> w.memory])
    IN [w EXCEPT !.emitted = Append(@, [event |-> ev, by |-> i, value |-> rs,
                                           memory |-> w.memory[i]]),
                 !.memory = acc.memory,
                 !.invoked = acc.invoked,
                 !.thrown = acc.thrown,
                 !.store = acc.store]

\* The Broadcaster effect body.
BroadcasterEffectAlways(i, rs, n, w) ==
    broadcastEvent(i, rs, n, [w EXCEPT !.memory[i] = rs])
BroadcasterEffectForgets(i, rs, n, w) ==
    IF ~isEqual(rs, w.memory[i])
    THEN broadcastEvent(i, rs, n, w)
    ELSE w
BroadcasterEffectAnnouncesRename(i, rs, n, w) ==
    IF ~isEqual(rs, w.memory[i]) \/ n # eventName[i]
    THEN broadcastEvent(i, rs, n, [w EXCEPT !.memory[i] = rs])
    ELSE w
BroadcasterEffect(i, rs, n, w) ==
    IF ~isEqual(rs, w.memory[i])
    THEN broadcastEvent(i, rs, n, [w EXCEPT !.memory[i] = rs])
    ELSE w

\* Dependency arrays of the two effects.
ListenerDepsNameOnly(cb0, n0, cb1, n1) == n0 # n1
ListenerDepsChanged(cb0, n0, cb1, n1) == cb0 # cb1 \/ n0 # n1
BroadcasterDepsNameOnly(n0, rs0, n1, rs1) == n0 # n1
BroadcasterDepsChanged(n0, rs0, n1, rs1) == n0 # n1 \/ ~ObjectIs(rs0, rs1)

\* ------------------------------------------------------------ commits
Publish(i, w, op, n, cb, rs, reg) ==
    /\ eventName' = [eventName EXCEPT ![i] = n]
    /\ reduxDispatchCallback' = [reduxDispatchCallback EXCEPT ![i] = cb]
    /\ reduxState' = [reduxState EXCEPT ![i] = rs]
    /\ previousReduxState' = w.memory
    /\ store' = w.store
    /\ listenerCleanup' = [listenerCleanup EXCEPT ![i] = reg]
    /\ listeners' = w.listeners
    /\ emitted' = w.emitted
    /\ invoked' = w.invoked
    /\ thrown' = w.thrown
    /\ last' = [op |-> op, inst |-> i, name |-> eventName[i],
                cb |-> reduxDispatchCallback[i], from |-> reduxState[i],
                memory |-> previousReduxState[i]]

\* First render: useRef(reduxState), then the Listener effect, then the
\* Broadcaster effect.
Mount(i, n, cb, rs) ==
    /\ status[i] = "unmounted"
    /\ status' = [status EXCEPT ![i] = "active"]
    /\ LET reg == Registration(i, n, cb)
           w0 == World(addEventListener(listeners, reg),
                       [previousReduxState EXCEPT ![i] = rs],
                       [store EXCEPT ![i] = rs])
           w1 == BroadcasterEffect(i, rs, n, w0)
       IN Publish(i, w1, "mount", n, cb, rs, reg)

\* A commit of an active instance with props (n, cb, rs): the cleanup of the
\* Listener effect if its dependencies changed, then the effects whose
\* dependencies changed, in declaration order.
CommitBroadcastsFirst(i, op, n, cb, rs, st) ==
    LET relisten == ListenerDepsChanged(reduxDispatchCallback[i], eventName[i], cb, n)
        reg == IF relisten THEN Registration(i, n, cb) ELSE listenerCleanup[i]
        w0 == World(listeners, previousReduxState, st)
        w1 == IF BroadcasterDepsChanged(eventName[i], reduxState[i], n, rs)
              THEN BroadcasterEffect(i, rs, n, w0)
              ELSE w0
        L0 == IF relisten /\ listenerCleanup[i] # NoCleanup
              THEN removeEventListener(listeners, listenerCleanup[i])
              ELSE listeners
        L1 == IF relisten THEN addEventListener(L0, reg) ELSE L0
    IN Publish(i, [w1 EXCEPT !.listeners = L1], op, n, cb, rs, reg)
Commit(i, op, n, cb, rs, st) ==
    LET relisten == ListenerDepsChanged(reduxDispatchCallback[i], eventName[i], cb, n)
        reg == IF relisten THEN Registration(i, n, cb) ELSE listenerCleanup[i]
        L0 == IF relisten /\ listenerCleanup[i] # NoCleanup
              THEN removeEventListener(listeners, listenerCleanup[i])
              ELSE listeners
        L1 == IF relisten THEN addEventListener(L0, reg) ELSE L0
        w0 == World(L1, previousReduxState, st)
        w1 == IF BroadcasterDepsChanged(eventName[i], reduxState[i], n, rs)
              THEN BroadcasterEffect(i, rs, n, w0)
              ELSE w0
    IN Publish(i, w1, op, n, cb, rs, reg)

\* The application re-renders the instance with new props; the new
\* reduxState is the application's new store value.
Render(i, n, cb, rs) ==
    /\ status[i] = "active"
    /\ UNCHANGED status
    /\ Commit(i, "render", n, cb, rs, [store EXCEPT ![i] = rs])

\* The application's store was changed by a callback: the instance is
\* re-rendered with the store's value as reduxState.
StoreRender(i) ==
    /\ status[i] = "active"
    /\ ~ObjectIs(store[i], reduxState[i])
    /\ UNCHANGED status
    /\ Commit(i, "storeRender", eventName[i], reduxDispatchCallback[i], store[i], store)

\* Unmount: React runs the Listener effect's cleanup; the instance, its
\* props and its ref are discarded.
UnmountKeepsListener(i) == listeners
UnmountCleanup(i) ==
    IF listenerCleanup[i] # NoCleanup
    THEN removeEventListener(listeners, listenerCleanup[i])
    ELSE listeners

Unmount(i) ==
    /\ status[i] = "active"
    /\ status' = [status EXCEPT ![i] = "gone"]
    /\ listeners' = UnmountCleanup(i)
    /\ listenerCleanup' = [listenerCleanup EXCEPT ![i] = NoCleanup]
    /\ eventName' = [eventName EXCEPT ![i] = "EXAMPLE_EVENT"]
    /\ reduxDispatchCallback' = [reduxDispatchCallback EXCEPT ![i] = NoCallback]
    /\ reduxState' = [reduxState EXCEPT ![i] = Undefined]
    /\ previousReduxState' = [previousReduxState EXCEPT ![i] = Undefined]
    /\ store' = [store EXCEPT ![i] = Undefined]
    /\ emitted' = <<>>
    /\ invoked' = <<>>
    /\ thrown' = {}
    /\ last' = [NoCommit EXCEPT !.op = "unmount", !.inst = i]

\* ------------------------------------------------------ specification
InputValues == {Undefined} \cup Objects

Init ==
    /\ status = [i \in Instances |-> "unmounted"]
    /\ eventName = [i \in Instances |-> "EXAMPLE_EVENT"]
    /\ reduxDispatchCallback = [i \in Instances |-> NoCallback]
    /\ reduxState = [i \in Instances |-> Undefined]
    /\ previousReduxState = [i \in Instances |-> Undefined]
    /\ store = [i \in Instances |-> Undefined]
    /\ listenerCleanup = [i \in Instances |-> NoCleanup]
    /\ listeners = <<>>
    /\ emitted = <<>>
    /\ invoked = <<>>
    /\ thrown = {}
    /\ last = NoCommit
    /\ changes = 0
    /\ written = {}
    /\ broadcasts = [i \in Instances |-> 0]

Next ==
    \/ \E i \in Instances, n \in Names, cb \in CallbackProps, rs \in InputValues :
           Mount(i, n, cb, rs) /\ UNCHANGED scenario
    \/ \E i \in Instances, n \in Names, cb \in CallbackProps, rs \in InputValues :
           Render(i, n, cb, rs) /\ UNCHANGED scenario
    \/ \E i \in Instances : StoreRender(i) /\ UNCHANGED scenario
    \/ \E i \in Instances : Unmount(i) /\ UNCHANGED scenario

Spec == Init /\ [][Next]_vars

\* ------------------------------------------- synchronised applications
\* The documented usage: every application mounts one ReduxSync on the same
\* event name, with a callback that dispatches the received state into its
\* store, all starting from structurally equal state. Afterwards the
\* applications change their state and re-render on what they receive.
AllActive == \A i \in Instances : status[i] = "active"

\* No application has a store value it has not rendered yet.
Quiescent == \A i \in Instances : ObjectIs(store[i], reduxState[i])

Counted(k) == Cardinality({e \in DOMAIN emitted : emitted[e].by = k})

SyncMount(i, rs) ==
    /\ changes = 0
    /\ \A j \in Instances : status[j] = "active" => isEqual(reduxState[j], rs)
    /\ Mount(i, "EXAMPLE_EVENT", "dispatch", rs)
    /\ UNCHANGED scenario

\* An application changes its own state.
SyncChange(i, rs) ==
    /\ AllActive
    /\ changes < MaxChanges
    /\ ~ObjectIs(rs, reduxState[i])
    /\ Render(i, eventName[i], reduxDispatchCallback[i], rs)
    /\ changes' = changes + 1
    /\ written' = written \cup {rs}
    /\ broadcasts' = [k \in Instances |-> broadcasts[k] + Counted(k)']

\* An application re-renders on the state its callback stored.
SyncStoreRender(i) ==
    /\ AllActive
    /\ broadcasts[i] < MaxBroadcasts
    /\ StoreRender(i)
    /\ broadcasts' = [k \in Instances |-> broadcasts[k] + Counted(k)']
    /\ UNCHANGED <<changes, written>>

SyncNext ==
    \/ \E i \in Instances, rs \in Objects : SyncMount(i, rs)
    \/ \E i \in Instances, rs \in InputValues : SyncChange(i, rs)
    \/ \E i \in Instances : SyncStoreRender(i)

SyncSpec == Init /\ [][SyncNext]_vars

TypeOK ==
    /\ status \in [Instances -> {"unmounted", "active", "gone"}]
    /\ eventName \in [Instances -> Names]
    /\ reduxDispatchCallback \in [Instances -> CallbackProps]
    /\ reduxState \in [Instances -> Values]
    /\ previousReduxState \in [Instances -> Values]
    /\ store \in [Instances -> Values]

\* ------------------------------------------------------------- properties
\* Structural equality of two values, as the specification means it:
\* the same kind of value and, for objects, the same content.
SameStructure(a, b) ==
    /\ a.t = b.t
    /\ a.t = "object" => Heap(a.ref) = Heap(b.ref)

\* The last commit re-rendered active instance i (its reduxState went from
\* last.from to reduxState[i]).
Updated(i) == last.inst = i /\ last.op \in {"render", "storeRender"}

\* Instance i has a listener on the document for name n.
Subscribed(i, n) ==
    \E k \in DOMAIN listeners : listeners[k].inst = i /\ listeners[k].name = n

\* How many times the last commit invoked instance i's callback with arg v.
Receipts(i, v) ==
    Cardinality({k \in DOMAIN invoked : invoked[k].inst = i /\ invoked[k].arg = v})

\* C1: updating an active instance's reduxState from A to a defined value B
\* that is not structurally equal to A dispatches exactly one event, under
\* the instance's eventName, whose payload is B.
C1_ChangeBroadcastsOnce ==
    \A i \in Instances :
        (/\ Updated(i)
         /\ reduxState[i] # Undefined
         /\ ~SameStructure(last.from, reduxState[i]))
        => /\ Len(emitted) = 1
           /\ emitted[1].by = i
           /\ emitted[1].event.name = eventName[i]
           /\ emitted[1].event.detail = reduxState[i]

C1_Witness ==
    \E i \in Instances :
        /\ Updated(i)
        /\ last.from \in Objects /\ reduxState[i] \in Objects
        /\ ~SameStructure(last.from, reduxState[i])
        /\ Len(emitted) = 1
        /\ emitted[1].event.detail = reduxState[i]

\* C2: updating an active instance's reduxState from A to a structurally
\* equal B dispatches no event, also when B is another object than A.
C2_EqualUpdateIsSilent ==
    \A i \in Instances :
        (Updated(i) /\ SameStructure(last.from, reduxState[i])) => emitted = <<>>

C2_Witness ==
    \E i \in Instances :
        /\ Updated(i)
        /\ last.from \in Objects /\ reduxState[i] \in Objects
        /\ last.from # reduxState[i]
        /\ SameStructure(last.from, reduxState[i])
        /\ emitted = <<>>

\* C3: every event dispatched under name N invokes the callback of every
\* instance that has a listener registered for N when it is dispatched, and
\* a callback is invoked only for an event dispatched in the same commit
\* under a name its instance is registered for: nothing is delivered across
\* names, and nothing dispatched earlier is replayed to a later listener.
C3_DeliveredIffRegistered ==
    /\ \A k \in DOMAIN emitted : \A i \in Instances :
           (/\ Subscribed(i, emitted[k].event.name)
            /\ reduxDispatchCallback[i] # NoCallback)
           => Receipts(i, emitted[k].event.detail) >= 1
    /\ \A d \in DOMAIN invoked : \E k \in DOMAIN emitted :
           /\ Subscribed(invoked[d].inst, emitted[k].event.name)
           /\ invoked[d].arg = emitted[k].event.detail
    /\ emitted = <<>> => invoked = <<>>

C3_Witness ==
    \E i, j \in Instances :
        /\ i # j
        /\ Len(emitted) = 1 /\ emitted[1].by = i
        /\ last.op = "render"
        /\ Subscribed(i, emitted[1].event.name)
        /\ Subscribed(j, emitted[1].event.name)
        /\ Receipts(i, emitted[1].event.detail) = 1
        /\ Receipts(j, emitted[1].event.detail) = 1

\* C4: once an instance is unmounted, no event dispatched on the document
\* invokes its callback or its handler.
C4_NoDeliveryAfterUnmount ==
    \A i \in Instances :
        status[i] = "gone"
        => /\ \A d \in DOMAIN invoked : invoked[d].inst # i
           /\ i \notin thrown

C4_Witness ==
    \E i, j \in Instances :
        /\ status[i] = "gone"
        /\ Len(emitted) = 1 /\ emitted[1].by = j
        /\ Receipts(j, emitted[1].event.detail) = 1
        /\ \A d \in DOMAIN invoked : invoked[d].inst # i

\* C5: when a broadcasting instance's state changes to a defined value V,
\* that change invokes the callback of every instance listening on the
\* broadcaster's event name with V exactly once; an update of the
\* broadcaster to a structurally identical value invokes no callback.
C5_ReceivedExactlyOnce ==
    \A b \in Instances :
        Updated(b) =>
            IF SameStructure(last.from, reduxState[b])
            THEN invoked = <<>>
            ELSE reduxState[b] # Undefined =>
                 \A j \in Instances :
                     (/\ Subscribed(j, eventName[b])
                      /\ reduxDispatchCallback[j] # NoCallback)
                     => /\ Receipts(j, reduxState[b]) = 1
                        /\ Cardinality({k \in DOMAIN invoked : invoked[k].inst = j}) = 1

C5_Witness ==
    \E b, j \in Instances :
        /\ b # j
        /\ Updated(b)
        /\ reduxState[b] \in Objects
        /\ Heap(reduxState[b].ref).example = 22
        /\ ~SameStructure(last.from, reduxState[b])
        /\ eventName[b] = "EXAMPLE_EVENT"
        /\ Subscribed(j, "EXAMPLE_EVENT")
        /\ Receipts(j, reduxState[b]) = 1

\* C6 (as stated): no emitted event has a payload structurally equal to the
\* emitter's previous-value memory at the moment document.dispatchEvent is
\* called.
C6_PayloadDiffersFromMemoryAtDispatch ==
    \A k \in DOMAIN emitted :
        ~SameStructure(emitted[k].event.detail, emitted[k].memory)

\* C6 (amended): the value an instance emits is never structurally equal to
\* the previous-value memory as it was before that broadcaster evaluation;
\* when dispatchEvent is called the memory already holds the emitted value.
C6_ValueDiffersFromMemoryBefore ==
    \A k \in DOMAIN emitted :
        /\ emitted[k].by = last.inst
        /\ ~SameStructure(emitted[k].value, last.memory)
        /\ emitted[k].memory = emitted[k].value

C6_Witness ==
    /\ Len(emitted) = 1
    /\ Updated(emitted[1].by)
    /\ emitted[1].value \in Objects
    /\ last.memory \in Objects
    /\ emitted[1].event.detail = emitted[1].memory

\* C7: an instance without a forwarding callback raises no error when an
\* event arrives on its channel, and forwards nothing.
C7_AbsentCallbackRaisesNothing ==
    \A i \in Instances :
        reduxDispatchCallback[i] = NoCallback
        => /\ i \notin thrown
           /\ \A d \in DOMAIN invoked : invoked[d].inst # i

\* C8: a broadcaster evaluated with an absent reduxState, or with one
\* unchanged from the previous-value memory, emits nothing and leaves the
\* memory as it was.
C8_AbsentOrUnchangedDoesNothing ==
    \A i \in Instances :
        /\ (/\ Updated(i)
            /\ \/ reduxState[i] = Undefined
               \/ SameStructure(reduxState[i], last.memory))
           => /\ emitted = <<>>
              /\ previousReduxState[i] = last.memory
        /\ (last.inst = i /\ last.op = "mount" /\ reduxState[i] = Undefined)
           => emitted = <<>>

\* C9: every instance has at most one listener on the document, registered
\* for its current eventName and forwarding to its current callback; after
\* a change the old name is no longer listened to and only the current
\* callback is ever invoked.
Subscriptions(i) == {k \in DOMAIN listeners : listeners[k].inst = i}

C9_OneCurrentSubscription ==
    /\ \A i \in Instances :
        /\ Cardinality(Subscriptions(i)) <= 1
        /\ status[i] = "active" => Cardinality(Subscriptions(i)) = 1
        /\ \A k \in Subscriptions(i) :
               listeners[k] = Registration(i, eventName[i], reduxDispatchCallback[i])
        /\ (Updated(i) /\ last.name # eventName[i]) => ~Subscribed(i, last.name)
    /\ \A d \in DOMAIN invoked :
           invoked[d].cb = reduxDispatchCallback[invoked[d].inst]

C9_Witness ==
    \E i \in Instances :
        /\ Updated(i)
        /\ last.cb \in Callbacks
        /\ reduxDispatchCallback[i] \in Callbacks
        /\ last.cb # reduxDispatchCallback[i]
        /\ last.name # eventName[i]
        /\ Len(emitted) = 1
        /\ \E d \in DOMAIN invoked :
               invoked[d].inst = i /\ invoked[d].cb = reduxDispatchCallback[i]

\* C10: the memory starts as the first reduxState, so mounting emits no
\* event; afterwards it is replaced exactly when the new reduxState is not
\* structurally equal to it, so that after every commit the memory is
\* structurally equal to the instance's reduxState.
C10_MemoryTracksState ==
    \A i \in Instances :
        /\ (last.inst = i /\ last.op = "mount")
           => emitted = <<>> /\ previousReduxState[i] = reduxState[i]
        /\ status[i] = "active" => SameStructure(previousReduxState[i], reduxState[i])
        /\ Updated(i)
           => previousReduxState[i] =
                  IF SameStructure(reduxState[i], last.memory)
                  THEN last.memory ELSE reduxState[i]

C10_Witness ==
    \E i \in Instances :
        /\ Updated(i)
        /\ last.memory \in Objects
        /\ reduxState[i] \in Objects
        /\ previousReduxState[i] # last.memory
        /\ previousReduxState[i] = reduxState[i]

\* C11: every listener registered for an event's name forwards exactly the
\* event's payload to its callback, with no duplicate suppression: also
\* when the payload is structurally equal to the receiver's previous-value
\* memory or to its current reduxState.
Targets(ev) ==
    {l \in DOMAIN listeners :
        listeners[l].name = ev.name /\ listeners[l].cb # NoCallback}

C11_AlwaysForwards ==
    \A k \in DOMAIN emitted :
        /\ \A l \in Targets(emitted[k].event) :
               \E d \in DOMAIN invoked :
                   invoked[d] = [inst |-> listeners[l].inst,
                                 cb |-> listeners[l].cb,
                                 arg |-> emitted[k].event.detail]
        /\ Len(emitted) = 1 => Len(invoked) = Cardinality(Targets(emitted[k].event))

C11_Witness ==
    \E j \in Instances :
        /\ Len(emitted) = 1
        /\ emitted[1].by # j
        /\ emitted[1].event.detail \in Objects
        /\ emitted[1].event.detail # reduxState[j]
        /\ SameStructure(emitted[1].event.detail, previousReduxState[j])
        /\ SameStructure(emitted[1].event.detail, reduxState[j])
        /\ Receipts(j, emitted[1].event.detail) = 1

\* C14: an instance that has a callback receives every event it emits: its
\* listener is registered for the name it emits under before it emits, and
\* its own callback is invoked once with the event's payload in the same
\* commit, next to the callbacks of the other instances listening there.
C14_ReceivesOwnBroadcast ==
    \A k \in DOMAIN emitted :
        LET i == emitted[k].by
            ev == emitted[k].event
        IN /\ Subscribed(i, ev.name)
           /\ emitted[k].value # Undefined => ev.detail = emitted[k].value
           /\ reduxDispatchCallback[i] # NoCallback
              => /\ Receipts(i, ev.detail) = 1
                 /\ \A j \in Instances \ {i} :
                        (/\ Subscribed(j, ev.name)
                         /\ reduxDispatchCallback[j] # NoCallback)
                        => Receipts(j, ev.detail) = 1

C14_Witness ==
    \E i, j \in Instances :
        /\ i # j
        /\ Len(emitted) = 1 /\ emitted[1].by = i
        /\ Updated(i)
        /\ last.name # eventName[i]
        /\ emitted[1].value \in Objects
        /\ Receipts(i, emitted[1].value) = 1
        /\ Receipts(j, emitted[1].value) = 1

\* C15 (as stated): a value that a callback stored as the instance's
\* reduxState is always re-emitted by that instance at its next broadcaster
\* evaluation.
C15_StoredValueAlwaysReEmitted ==
    \A i \in Instances :
        (last.inst = i /\ last.op = "storeRender")
        => /\ Len(emitted) = 1
           /\ emitted[1].by = i
           /\ emitted[1].value = reduxState[i]

\* C15 (amended): a commit changes the previous-value memory and the
\* subscription of no instance but the committing one, whatever events the
\* others receive in it; and a received value stored as reduxState is
\* re-emitted at the receiver's next broadcaster evaluation when it is not
\* structurally equal to the receiver's memory.
Registrations(i) == {listeners[k] : k \in Subscriptions(i)}

C15_ReceiptKeepsMemory ==
    /\ [][\A j \in Instances :
             j # last'.inst
             => /\ previousReduxState'[j] = previousReduxState[j]
                /\ listenerCleanup'[j] = listenerCleanup[j]
                /\ Registrations(j)' = Registrations(j)]_vars
    /\ [](\A i \in Instances :
             (/\ last.inst = i /\ last.op = "storeRender"
              /\ ~SameStructure(reduxState[i], last.memory))
             => /\ Len(emitted) = 1
                /\ emitted[1].by = i
                /\ emitted[1].value = reduxState[i]
                /\ previousReduxState[i] = reduxState[i])

C15_Witness ==
    \E i \in Instances :
        /\ last.inst = i /\ last.op = "storeRender"
        /\ reduxState[i] \in Objects /\ last.memory \in Objects
        /\ ~SameStructure(reduxState[i], last.memory)
        /\ Len(emitted) = 1
        /\ emitted[1].by = i
        /\ emitted[1].value = reduxState[i]

\* C16: a commit that changes an instance's eventName and leaves its
\* reduxState structurally unchanged emits no event and leaves the memory
\* as it was; an event is emitted only by a commit that changes reduxState
\* structurally, and then under the instance's current name.
C16_RenameIsSilent ==
    \A i \in Instances :
        /\ (/\ Updated(i)
            /\ last.name # eventName[i]
            /\ SameStructure(last.from, reduxState[i]))
           => /\ emitted = <<>>
              /\ invoked = <<>>
              /\ previousReduxState[i] = last.memory
        /\ (Updated(i) /\ emitted # <<>>)
           => /\ ~SameStructure(last.from, reduxState[i])
              /\ \A k \in DOMAIN emitted : emitted[k].event.name = eventName[i]

C16_Witness ==
    \E i \in Instances :
        /\ Updated(i)
        /\ last.name # eventName[i]
        /\ last.from = reduxState[i]
        /\ reduxState[i] \in Objects
        /\ emitted = <<>>
        /\ previousReduxState[i] = last.memory

\* C12: in a system of synchronised applications, a single external state
\* change makes every instance broadcast at most once (the originator and
\* one echo per receiver).
C12_EachBroadcastsAtMostOnce ==
    (AllActive /\ changes = 1) => \A i \in Instances : broadcasts[i] <= 1

\* C13: in a system of synchronised applications, whenever no re-render is
\* pending after external state changes, all instances hold the same
\* reduxState, and it is one of the externally written values.
C13_QuiescentAgreesOnWrittenValue ==
    (AllActive /\ changes >= 1 /\ Quiescent)
    => \E v \in written : \A i \in Instances : SameStructure(reduxState[i], v)
====
